---- MODULE Spec2Model ----
(***************************************************************************)
(* Model of PhotonTracer::tracePhoton and PhotonTracer::traceSample        *)
(* (src/core/integrators/photon_map/PhotonTracer.cpp).                     *)
(*                                                                         *)
(* Floating point values (throughput, sampling weights, photon power) are  *)
(* abstracted to the classes the code distinguishes: zero, finite          *)
(* positive, infinite and NaN.  A ray is abstracted to its generation (the *)
(* number of Ray::scatter calls that produced it) and a flag telling       *)
(* whether its position or direction holds a NaN.  The intersection record *)
(* remembers the generation of the ray whose intersection test filled it.  *)
(* Every outcome of a collaborator (scene, light, camera, medium, BSDF,    *)
(* sampler, spatial index) is an input drawn with \E.                      *)
(***************************************************************************)
EXTENDS Integers, Sequences, FiniteSets, TLC

\* ---------------------------------------------------------------- bounds
MaxBounceBound == 3   \* settings.maxBounces and minBounces range over 0..MaxBounceBound
MaxCap == 2           \* capacity of each photon range ranges over 0..MaxCap
MaxGather == 2        \* settings.gatherCount ranges over 1..MaxGather
MaxPhotonBounce == 3  \* bounce stored in a photon handed back by an index
MaxQuery == 2         \* candidates a volume index hands to its callback per query
GatherRadius == 2     \* the gatherRadius argument of traceSample

\* ------------------------------------------------------- abstract floats
FZero == "zero"
FPos == "pos"
FInf == "inf"
FNaN == "nan"
FloatClass == {FZero, FPos, FInf, FNaN}

\* IEEE product of two non-negative (or NaN) floats, by class.
Mul(a, b) ==
    IF a = FNaN \/ b = FNaN THEN FNaN
    ELSE IF (a = FZero /\ b = FInf) \/ (a = FInf /\ b = FZero) THEN FNaN
    ELSE IF a = FZero \/ b = FZero THEN FZero
    ELSE IF a = FInf \/ b = FInf THEN FInf
    ELSE FPos

IsNaN(a) == a = FNaN

NoMedium == "null"
Media == {NoMedium, "medium"}

Min(a, b) == IF a < b THEN a ELSE b

SeqsUpTo(S, n) == UNION {[1..k -> S] : k \in 0..n}

VARIABLES
    proc,        \* which entry point this run exercises
    pc,          \* position inside the entry point
    exit,        \* how traceSample's main loop was left
    maxBounces, minBounces, gatherCount,   \* _settings
    volIndex,    \* which volume index traceSample was given
    surfaceRange, volumeRange, pathRange,  \* the three bounded ranges
    attempts,    \* deposits attempted per range (a deposit statement reached)
    ray, info, didHit, hitSurface, medium, throughput, bounce,
    iters,       \* iterations of the main loop started
    result,      \* terms added to traceSample's result, in order
    query        \* the density query of the current step and what each
                 \* candidate did (the callback's locals; dead once the step ends)

vars == <<proc, pc, exit, maxBounces, minBounces, gatherCount, volIndex,
          surfaceRange, volumeRange, pathRange, attempts,
          ray, info, didHit, hitSurface, medium, throughput, bounce,
          iters, result, query>>

settingsVars == <<proc, maxBounces, minBounces, gatherCount, volIndex>>
rangeVars == <<surfaceRange, volumeRange, pathRange, attempts>>

\* ------------------------------------------------------- bounded ranges
NewRange(cap) == [cap |-> cap, photons |-> <<>>]
FullOffByOne(r) == Len(r.photons) > r.cap
Full(r) == Len(r.photons) >= r.cap
AddPhoton(r, p) == [r EXCEPT !.photons = Append(@, p)]
\* if (!range.full()) { p = range.addPhoton(); ... }
Deposit(r, p) == IF ~Full(r) THEN AddPhoton(r, p) ELSE r

NoQuery == [kind |-> "none", bounce |-> 0, cands |-> <<>>, passed |-> <<>>,
            contrib |-> <<>>, radiusSq |-> 0, infoGen |-> 0, rayGen |-> 0]

\* uninitialised IntersectionInfo: filled by no intersection test yet
NoInfo == [gen |-> -1]

\* _scene->intersect(ray, data, info): on a hit the record describes the hit
\* of the tested ray; on a miss it keeps what it held.
Intersect(r, i, hit) == IF hit THEN [gen |-> r.gen] ELSE i

\* ray.scatter(...): a new ray; nan tells whether its position/direction is NaN
Scatter(r, nan) == [gen |-> r.gen + 1, nan |-> nan]

Init ==
    /\ proc \in {"tracePhoton", "traceSample"}
    /\ pc = "idle"
    /\ exit = "none"
    /\ maxBounces \in 0..MaxBounceBound
    /\ minBounces \in IF proc = "traceSample" THEN 0..MaxBounceBound ELSE {0}
    /\ gatherCount \in IF proc = "traceSample" THEN 1..MaxGather ELSE {1}
    /\ volIndex \in IF proc = "traceSample" THEN {"point", "beam", "none"} ELSE {"none"}
    /\ \E cs \in IF proc = "tracePhoton" THEN 0..MaxCap ELSE {0},
          cv \in IF proc = "tracePhoton" THEN 0..MaxCap ELSE {0},
          cp \in IF proc = "tracePhoton" THEN 0..MaxCap ELSE {0} :
            /\ surfaceRange = NewRange(cs)
            /\ volumeRange = NewRange(cv)
            /\ pathRange = NewRange(cp)
    /\ attempts = [surface |-> 0, volume |-> 0, path |-> 0]
    /\ ray = [gen |-> 0, nan |-> FALSE]
    /\ info = NoInfo
    /\ didHit = FALSE
    /\ hitSurface = TRUE
    /\ medium = NoMedium
    /\ throughput = FPos
    /\ bounce = 0
    /\ iters = 0
    /\ result = <<>>
    /\ query = NoQuery

\* ============================================================ tracePhoton

\* lines 18-49: light sampling, initial path photon, first intersection
PhotonBegin ==
    /\ pc = "idle" /\ proc = "tracePhoton"
    /\ \E posOk \in BOOLEAN, dirOk \in BOOLEAN :
        IF ~posOk \/ ~dirOk
        THEN /\ pc' = "done"
             /\ UNCHANGED <<exit, settingsVars, rangeVars, ray, info, didHit,
                            hitSurface, medium, throughput, bounce, iters, result, query>>
        ELSE \E m \in Media, t0 \in FloatClass, rnan \in BOOLEAN, hit \in BOOLEAN :
             /\ medium' = m
             /\ ray' = [gen |-> 0, nan |-> rnan]
             /\ throughput' = t0
             /\ pathRange' = Deposit(pathRange, [bounce |-> 0, power |-> t0, onSurface |-> FALSE])
             /\ attempts' = [attempts EXCEPT !.path = @ + 1]
             /\ bounce' = 0
             /\ hitSurface' = TRUE
             /\ didHit' = hit
             /\ info' = Intersect(ray', info, hit)
             /\ pc' = "pLoop"
             /\ UNCHANGED <<exit, settingsVars, surfaceRange, volumeRange, iters, result, query>>

HitSurfaceAlways(exited) == TRUE
\* line 58: the flag the surface block of lines 84-108 reads after a medium step
HitSurfaceAfterMedium(exited) == exited

\* line 50
PhotonLoopCond(hit, m, b, maxB) == (hit \/ m # NoMedium) /\ b < maxB - 1

\* lines 50-51
PhotonLoopTest ==
    /\ pc = "pLoop"
    /\ IF PhotonLoopCond(didHit, medium, bounce, maxBounces)
       THEN /\ bounce' = bounce + 1
            /\ iters' = iters + 1
            /\ pc' = "pMedium"
       ELSE /\ pc' = "done"
            /\ UNCHANGED <<bounce, iters>>
    /\ UNCHANGED <<exit, settingsVars, rangeVars, ray, info, didHit, hitSurface,
                   medium, throughput, result, query>>

\* lines 53-82: free-flight sampling, volume deposit, phase scattering
PhotonMedium ==
    /\ pc = "pMedium"
    /\ IF medium = NoMedium
       THEN /\ pc' = "pSurface"
            /\ UNCHANGED <<rangeVars, ray, hitSurface, throughput>>
       ELSE \E distOk \in BOOLEAN :
            IF ~distOk
            THEN /\ pc' = "done"
                 /\ UNCHANGED <<rangeVars, ray, hitSurface, throughput>>
            ELSE \E w \in FloatClass, exited \in BOOLEAN :
                 LET t1 == Mul(throughput, w) IN
                 /\ hitSurface' = HitSurfaceAfterMedium(exited)
                 /\ IF exited
                    THEN /\ throughput' = t1
                         /\ pc' = "pSurface"
                         /\ UNCHANGED <<rangeVars, ray>>
                    ELSE /\ volumeRange' = Deposit(volumeRange, [bounce |-> bounce, power |-> t1])
                         /\ pathRange' = Deposit(pathRange,
                                [bounce |-> bounce, power |-> t1, onSurface |-> FALSE])
                         /\ attempts' = [attempts EXCEPT !.volume = @ + 1, !.path = @ + 1]
                         /\ UNCHANGED surfaceRange
                         /\ \E phaseOk \in BOOLEAN :
                            IF ~phaseOk
                            THEN /\ throughput' = t1
                                 /\ pc' = "done"
                                 /\ UNCHANGED ray
                            ELSE \E pw \in FloatClass, rnan \in BOOLEAN :
                                 /\ ray' = Scatter(ray, rnan)
                                 /\ throughput' = Mul(t1, pw)
                                 /\ pc' = "pSurface"
    /\ UNCHANGED <<exit, settingsVars, info, didHit, medium, bounce, iters, result, query>>

\* line 100
AllFull(s, v, p) == Full(v) /\ Full(s) /\ Full(p)

\* lines 84-101: surface deposit, path deposit, early exit when all ranges are full
PhotonSurface ==
    /\ pc = "pSurface"
    /\ IF hitSurface
       THEN \E pureSpecular \in BOOLEAN, cosRatio \in FloatClass :
            /\ IF ~pureSpecular
               THEN /\ surfaceRange' = Deposit(surfaceRange,
                           [bounce |-> bounce, power |-> Mul(throughput, cosRatio)])
                    /\ attempts' = [attempts EXCEPT !.surface = @ + 1, !.path = @ + 1]
               ELSE /\ UNCHANGED surfaceRange
                    /\ attempts' = [attempts EXCEPT !.path = @ + 1]
            /\ pathRange' = Deposit(pathRange,
                   [bounce |-> bounce, power |-> throughput, onSurface |-> FALSE])
       ELSE UNCHANGED <<surfaceRange, pathRange, attempts>>
    /\ pc' = IF AllFull(surfaceRange', volumeRange, pathRange') THEN "done" ELSE "pScatter"
    /\ UNCHANGED <<exit, settingsVars, volumeRange, ray, info, didHit, hitSurface,
                   medium, throughput, bounce, iters, result, query>>

\* lines 103-108: makeLocalScatterEvent + handleSurface
PhotonScatter ==
    /\ pc = "pScatter"
    /\ IF hitSurface
       THEN \E ok \in BOOLEAN :
            IF ~ok
            THEN /\ pc' = "done"
                 /\ UNCHANGED <<ray, medium, throughput>>
            ELSE \E w \in FloatClass, m \in Media, rnan \in BOOLEAN :
                 /\ throughput' = Mul(throughput, w)
                 /\ medium' = m
                 /\ ray' = Scatter(ray, rnan)
                 /\ pc' = "pCheck"
       ELSE /\ pc' = "pCheck"
            /\ UNCHANGED <<ray, medium, throughput>>
    /\ UNCHANGED <<exit, settingsVars, rangeVars, info, didHit, hitSurface,
                   bounce, iters, result, query>>

\* lines 110-116: zero throughput, NaN ray, NaN throughput
PhotonPathDead(t, r) == t = FZero \/ r.nan \/ IsNaN(t)

\* lines 110-119
PhotonCheck ==
    /\ pc = "pCheck"
    /\ IF PhotonPathDead(throughput, ray)
       THEN /\ pc' = "done"
            /\ UNCHANGED <<didHit, info>>
       ELSE /\ pc' = "pLoop"
            /\ IF bounce < maxBounces
               THEN \E hit \in BOOLEAN :
                    /\ didHit' = hit
                    /\ info' = Intersect(ray, info, hit)
               ELSE UNCHANGED <<didHit, info>>
    /\ UNCHANGED <<exit, settingsVars, rangeVars, ray, hitSurface, medium,
                   throughput, bounce, iters, result, query>>

NextPhoton ==
    \/ PhotonBegin
    \/ PhotonLoopTest
    \/ PhotonMedium
    \/ PhotonSurface
    \/ PhotonScatter
    \/ PhotonCheck

\* ============================================================ traceSample

PhotonFilterInclusive(b, pb, minB, maxB) ==
    LET fullPathBounce == b + pb - 1
    IN ~(fullPathBounce < minB \/ fullPathBounce > maxB)

\* lines 153-155 and 261-263: path-length filter of a stored photon
PhotonFilter(b, pb, minB, maxB) ==
    LET fullPathBounce == b + pb - 1
    IN ~(fullPathBounce < minB \/ fullPathBounce >= maxB)

BeamFilterInclusive(b, p0b, minB, maxB) ==
    LET fullPathBounce == b + p0b
    IN ~(fullPathBounce < minB \/ fullPathBounce > maxB)

\* lines 169-171: path-length filter of a beam, from its first path photon p0
BeamFilter(b, p0b, minB, maxB) ==
    LET fullPathBounce == b + p0b
    IN ~(fullPathBounce < minB \/ fullPathBounce >= maxB)

\* candidates mediumTree->beamQuery hands to its callback
PointCands == [bounce : 1..MaxPhotonBounce, geom : {TRUE}, distSq : {0}]
\* candidates beamBvh->trace hands to its callback; geom tells whether the
\* beam passes the distance, slab and interval tests of lines 173-193
BeamCands == [bounce : 0..MaxPhotonBounce, geom : BOOLEAN, distSq : {0}]

\* surfaceTree.nearestNeighbours(p, photons, distSq, k, radius): at most k
\* photons closer than radius; once k photons are found the results form a
\* max-heap on distance, so entry 0 is the farthest.
NearestNeighbours(k, radius) ==
    LET Cand == [bounce : 1..MaxPhotonBounce, geom : {TRUE}, distSq : 1..(radius*radius - 1)]
    IN {c \in SeqsUpTo(Cand, k) :
            Len(c) = k => \A i \in 1..Len(c) : c[1].distSq >= c[i].distSq}

RadiusSqAlwaysAdaptive(count, k, cands, radius) ==
    IF count > 0 THEN cands[1].distSq ELSE radius * radius

\* line 270
RadiusSq(count, k, cands, radius) ==
    IF count = k THEN cands[1].distSq ELSE radius * radius

\* lines 128-145: camera sampling, first intersection
SampleBegin ==
    /\ pc = "idle" /\ proc = "traceSample"
    /\ \E posOk \in BOOLEAN, dirOk \in BOOLEAN :
        IF ~posOk \/ ~dirOk
        THEN /\ pc' = "done"
             /\ exit' = "noSample"
             /\ UNCHANGED <<ray, info, didHit, medium, throughput>>
        ELSE \E m \in Media, t0 \in FloatClass, rnan \in BOOLEAN, hit \in BOOLEAN :
             /\ medium' = m
             /\ ray' = [gen |-> 0, nan |-> rnan]
             /\ throughput' = t0
             /\ didHit' = hit
             /\ info' = Intersect(ray', info, hit)
             /\ pc' = "sLoop"
             /\ UNCHANGED exit
    /\ bounce' = 0
    /\ result' = <<>>
    /\ UNCHANGED <<settingsVars, rangeVars, hitSurface, iters, query>>

SampleLoopCondUnbounded(hit, m, b, maxB) == m # NoMedium \/ hit

\* line 146
SampleLoopCond(hit, m, b, maxB) == (m # NoMedium \/ hit) /\ b < maxB

\* lines 146-147
SampleLoopTest ==
    /\ pc = "sLoop"
    /\ IF SampleLoopCond(didHit, medium, bounce, maxBounces)
       THEN /\ bounce' = bounce + 1
            /\ iters' = iters + 1
            /\ pc' = "sMedium"
            /\ UNCHANGED exit
       ELSE /\ pc' = "sPost"
            /\ exit' = "loopCond"
            /\ UNCHANGED <<bounce, iters>>
    /\ UNCHANGED <<settingsVars, rangeVars, ray, info, didHit, hitSurface,
                   medium, throughput, result, query>>

\* lines 149-206: volume estimate with the supplied index, transmittance, miss
SampleMedium ==
    /\ pc = "sMedium"
    /\ IF medium # NoMedium
       THEN /\ \E tw \in FloatClass : throughput' = Mul(throughput, tw)
            /\ IF volIndex = "point"
               THEN \E cs \in SeqsUpTo(PointCands, MaxQuery) :
                    LET ok == [i \in 1..Len(cs) |->
                                  PhotonFilter(bounce, cs[i].bounce, minBounces, maxBounces)]
                    IN /\ query' = [kind |-> "point", bounce |-> bounce, cands |-> cs,
                                    passed |-> ok, contrib |-> ok, radiusSq |-> 0,
                                    infoGen |-> info.gen, rayGen |-> ray.gen]
                       /\ result' = Append(result, "volume")
               ELSE IF volIndex = "beam"
               THEN \E cs \in SeqsUpTo(BeamCands, MaxQuery) :
                    LET ok == [i \in 1..Len(cs) |->
                                  BeamFilter(bounce, cs[i].bounce, minBounces, maxBounces)]
                    IN /\ query' = [kind |-> "beam", bounce |-> bounce, cands |-> cs,
                                    passed |-> ok,
                                    contrib |-> [i \in 1..Len(cs) |-> ok[i] /\ cs[i].geom],
                                    radiusSq |-> 0,
                                    infoGen |-> info.gen, rayGen |-> ray.gen]
                       /\ result' = Append(result, "volume")
               ELSE UNCHANGED <<result, query>>
       ELSE UNCHANGED <<throughput, result, query>>
    /\ IF ~didHit
       THEN pc' = "sPost" /\ exit' = "noHit"
       ELSE pc' = "sSurface" /\ UNCHANGED exit
    /\ UNCHANGED <<settingsVars, rangeVars, ray, info, didHit, hitSurface,
                   medium, bounce, iters>>

\* lines 234-237
SampleInvalid(t, r) == r.nan \/ IsNaN(t)

\* lines 208-240: transparency pass-through or specular sample, medium
\* selection, ray continuation, NaN checks, re-intersection
SampleSurface ==
    /\ pc = "sSurface"
    /\ \E passThrough \in BOOLEAN, sampleOk \in BOOLEAN :
        IF ~passThrough /\ ~sampleOk
        THEN /\ pc' = "sPost"
             /\ exit' = "sampleFail"
             /\ UNCHANGED <<ray, info, didHit, medium, throughput>>
        ELSE \E w \in FloatClass, m \in Media, rnan \in BOOLEAN :
             /\ throughput' = Mul(throughput, w)
             /\ medium' = m
             /\ ray' = Scatter(ray, rnan)
             /\ IF SampleInvalid(throughput', ray')
                THEN /\ pc' = "sPost"
                     /\ exit' = "nan"
                     /\ UNCHANGED <<didHit, info>>
                ELSE /\ pc' = "sLoop"
                     /\ UNCHANGED exit
                     /\ IF bounce < maxBounces
                        THEN \E hit \in BOOLEAN :
                             /\ didHit' = hit
                             /\ info' = Intersect(ray', info, hit)
                        ELSE UNCHANGED <<didHit, info>>
    /\ query' = NoQuery
    /\ UNCHANGED <<settingsVars, rangeVars, hitSurface, bounce, iters, result>>

\* lines 243-273: infinite lights, emission, surface density estimate
SamplePost ==
    /\ pc = "sPost"
    /\ pc' = "done"
    /\ IF ~didHit
       THEN /\ \E inf \in BOOLEAN :
               result' = IF medium = NoMedium /\ bounce > minBounces /\ inf
                         THEN Append(result, "infinite") ELSE result
            /\ query' = NoQuery
       ELSE \E emissive \in BOOLEAN, nn \in NearestNeighbours(gatherCount, GatherRadius) :
            LET r1 == IF emissive /\ bounce > minBounces
                      THEN Append(result, "emission") ELSE result
                count == Len(nn)
                ok == [i \in 1..count |->
                          PhotonFilter(bounce, nn[i].bounce, minBounces, maxBounces)]
            IN /\ query' = [kind |-> "knn", bounce |-> bounce, cands |-> nn,
                            passed |-> ok, contrib |-> ok,
                            radiusSq |-> IF count = 0 THEN 0
                                         ELSE RadiusSq(count, gatherCount, nn, GatherRadius),
                            infoGen |-> info.gen, rayGen |-> ray.gen]
               /\ result' = IF count = 0 THEN r1 ELSE Append(r1, "surface")
    /\ UNCHANGED <<exit, settingsVars, rangeVars, ray, info, didHit, hitSurface,
                   medium, throughput, bounce, iters>>

NextSample ==
    \/ SampleBegin
    \/ SampleLoopTest
    \/ SampleMedium
    \/ SampleSurface
    \/ SamplePost

Next == NextPhoton \/ NextSample

Spec == Init /\ [][Next]_vars


\* ================================================================ claims

Last(q) == q[Len(q)]
InWindow(n) == minBounces <= n /\ n < maxBounces
Ranges == <<surfaceRange, volumeRange, pathRange>>
Attempted == <<attempts.surface, attempts.volume, attempts.path>>

\* C1: no range ever holds more photons than its capacity, and after N
\* attempted deposits into a range its count is min(N, capacity).
C1_RangeNeverExceedsCapacity ==
    \A k \in 1..3 :
        /\ Len(Ranges[k].photons) <= Ranges[k].cap
        /\ Len(Ranges[k].photons) = Min(Attempted[k], Ranges[k].cap)

\* a range with room for a photon was offered more photons than it holds
C1_Witness ==
    /\ attempts.path > pathRange.cap /\ pathRange.cap >= 1
    /\ attempts.volume > volumeRange.cap /\ volumeRange.cap >= 1
    /\ Len(pathRange.photons) = pathRange.cap

\* C2: both main loops run at most maxBounces iterations; the bounce
\* counter is incremented exactly once per iteration and never reset.
C2_LoopsBoundedByMaxBounces ==
    /\ iters <= maxBounces
    /\ bounce = iters

\* a gather path that used every iteration it was allowed
C2_Witness ==
    /\ proc = "traceSample" /\ pc = "done"
    /\ maxBounces >= 2 /\ iters = maxBounces

\* C3: a surface or volume photon deposited in the k-th iteration carries
\* bounce k, which is one more than the number of scatterings the ray has
\* undergone; the path photon recorded at the emission point has bounce 0.
C3_BounceCountsScatterings ==
    [][ /\ Len(volumeRange'.photons) > Len(volumeRange.photons)
            => /\ Last(volumeRange'.photons).bounce = ray.gen + 1
               /\ Last(volumeRange'.photons).bounce = iters
        /\ Len(surfaceRange'.photons) > Len(surfaceRange.photons)
            => /\ Last(surfaceRange'.photons).bounce = ray.gen + 1
               /\ Last(surfaceRange'.photons).bounce = iters
        /\ (pc = "idle" /\ Len(pathRange'.photons) > Len(pathRange.photons))
            => Last(pathRange'.photons).bounce = 0 ]_vars

\* a volume photon of the first interaction followed by a surface photon of the second
C3_Witness ==
    /\ Len(volumeRange.photons) >= 1 /\ volumeRange.photons[1].bounce = 1
    /\ Len(surfaceRange.photons) >= 1 /\ surfaceRange.photons[1].bounce = 2
    /\ Len(pathRange.photons) >= 1 /\ pathRange.photons[1].bounce = 0

\* C4 (as stated): a beam passes the bounce filter exactly when camera
\* bounces + the beam's stored bounce - 1 lies in [minBounces, maxBounces),
\* and only such beams contribute.
C4_BeamFilterMinusOne ==
    query.kind = "beam" =>
        \A i \in 1..Len(query.cands) :
            /\ query.passed[i] <=> InWindow(query.bounce + query.cands[i].bounce - 1)
            /\ query.contrib[i] => InWindow(query.bounce + query.cands[i].bounce - 1)

\* C4 (amended): a beam passes the bounce filter exactly when camera bounces
\* + the bounce stored in the beam's first path photon, with nothing
\* subtracted, lies in [minBounces, maxBounces), and only such beams contribute.
C4_BeamFilter ==
    query.kind = "beam" =>
        \A i \in 1..Len(query.cands) :
            /\ query.passed[i] <=> InWindow(query.bounce + query.cands[i].bounce)
            /\ query.contrib[i] => InWindow(query.bounce + query.cands[i].bounce)

\* one beam at maxBounces-1 that contributes next to one at maxBounces that is rejected
C4_Witness ==
    /\ query.kind = "beam" /\ Len(query.cands) = 2
    /\ query.bounce + query.cands[1].bounce = maxBounces - 1
    /\ query.bounce + query.cands[1].bounce = minBounces
    /\ query.contrib[1]
    /\ query.bounce + query.cands[2].bounce = maxBounces
    /\ ~query.passed[2]

\* C5: in the surface gather and the point-kernel query a photon is
\* accumulated exactly when camera bounces + its stored bounce - 1 lies in
\* [minBounces, maxBounces).
C5_PhotonFilter ==
    query.kind \in {"point", "knn"} =>
        \A i \in 1..Len(query.cands) :
            query.contrib[i] <=> InWindow(query.bounce + query.cands[i].bounce - 1)

\* a gather with one photon at maxBounces-1 accumulated and one at maxBounces discarded
C5_Witness ==
    /\ query.kind = "knn" /\ Len(query.cands) = 2
    /\ query.bounce + query.cands[1].bounce - 1 = maxBounces - 1
    /\ minBounces < maxBounces
    /\ query.contrib[1]
    /\ query.bounce + query.cands[2].bounce - 1 = maxBounces
    /\ ~query.contrib[2]

\* C6: every deposited surface and volume photon has finite, non-negative power.
C6_DepositedPowerFinite ==
    /\ \A i \in 1..Len(surfaceRange.photons) :
          surfaceRange.photons[i].power \in {FZero, FPos}
    /\ \A i \in 1..Len(volumeRange.photons) :
          volumeRange.photons[i].power \in {FZero, FPos}

MaxDistSq(cands) ==
    CHOOSE d \in {cands[i].distSq : i \in 1..Len(cands)} :
        \A i \in 1..Len(cands) : cands[i].distSq <= d

C8_NothingAddedAfterNaN ==
    [][exit = "nan" => result' = result]_vars

\* C9: surface photons, surface path photons and the surface scattering step
\* happen only when the most recent intersection test reported a hit.
C9_SurfaceStepOnlyAfterHit ==
    [][ ( \/ surfaceRange' # surfaceRange
          \/ (pc = "pSurface" /\ pathRange' # pathRange)
          \/ (pc = "pScatter" /\ hitSurface) ) => didHit ]_vars

\* C10: the intersection record used by the post-loop emission term and
\* surface gather was filled by an intersection test of the current ray.
C10_PostLoopUsesFreshHit ==
    query.kind = "knn" => query.infoGen = query.rayGen
====
